---- MODULE Spec2Model ----
(***************************************************************************)
(* A model of GZipWriter (src/src/GZipWriter.cpp): the writer that         *)
(* serializes a quantification experiment.  One main thread issues the     *)
(* serial operations writeEquivCounts, writeMeta, writeAbundances and      *)
(* finally destroys the writer; NumWorkers parallel workers call           *)
(* writeBootstrap.  The file system is a map from paths to contents.       *)
(*                                                                         *)
(* Paths are sequences of components.  The content of a file is the        *)
(* uncompressed data its stream has accepted, as a sequence of lines, of   *)
(* text tokens or of vector elements; gzip framing and buffering are not   *)
(* modelled.  The floating-point columns of quant.sf (EffectiveLength,     *)
(* TPM, NumReads) are not computed: a row is modelled by its Name column.  *)
(*                                                                         *)
(* Three specifications share the actions: Spec runs the serial            *)
(* operations over every experiment and option setting within the bounds,  *)
(* SpecFault does so when opens may fail, SpecBootstrap runs the           *)
(* concurrent bootstrap phase with every worker making CallsPerWorker      *)
(* appends.                                                                *)
(***************************************************************************)
EXTENDS Integers, Sequences, FiniteSets, TLC

\* ---------------------------------------------------------------- bounds
NumWorkers == 2
CallsPerWorker == 1
VecLen == 2
MaxTxps == 2
MaxBootstraps == 1
MaxGibbs == 2

Workers == 1..NumWorkers
RefNames == {"A", "B"}

\* ------------------------------------------------------ program constants
numFLDSamples == 10000
NoOwner == 0

VARIABLES
  transcripts,          \* experiment.transcripts(): the RefNames, in order
  opts,                 \* SalmonOpts: numBootstraps, numGibbsSamples, biasCorrect, gcBiasCorrect
  openFails,            \* environment: every attempt to open a file fails
  dirs,                 \* directories that exist
  files,                \* path -> content, for the files that exist
  bsPath_,              \* GZipWriter::bsPath_ (<<>> until writeMeta sets it)
  bsStream_,            \* GZipWriter::bsStream_
  writeMutex_,          \* owner of GZipWriter::writeMutex_, or NoOwner
  numBootstrapsWritten_,\* the atomic counter
  logger_,              \* records received by the injected logger
  life,                 \* "live", "destroyed" (after ~GZipWriter) or "crashed"
  pcMain,               \* position of the main thread
  scoped,               \* scope-local streams alive in the running serial operation
  ret,                  \* serial operation -> its last return value, "none" before
  ioOK,                 \* serial operation -> every file of its last run was opened and written
  metaFresh,            \* the running/last writeMeta started on an empty output directory
  pcW,                  \* worker -> position inside writeBootstrap
  widx,                 \* worker -> number of elements of its vector already written
  returned,             \* worker -> the results of its finished writeBootstrap calls
  toAppend,             \* writeBootstrap calls the engine has yet to start
  acquired,             \* history: the calls in the order in which they took the mutex
  bsOpens               \* history: how many times a bootstrap stream was created

vars == <<transcripts, opts, openFails, dirs, files, bsPath_, bsStream_, writeMutex_,
          numBootstrapsWritten_, logger_, life, pcMain, scoped, ret, ioOK, metaFresh,
          pcW, widx, returned, toAppend, acquired, bsOpens>>

expVars == <<transcripts, opts, openFails>>
bsVars == <<bsStream_, writeMutex_, numBootstrapsWritten_, pcW, widx, returned,
            toAppend, acquired, bsOpens>>

\* ------------------------------------------------------------------ paths
path_ == <<"out">>
auxDir == path_ \o <<"aux_info">>
bootstrapDir == auxDir \o <<"bootstrap">>

IsPrefix(p, q) == Len(p) <= Len(q) /\ SubSeq(q, 1, Len(p)) = p

\* boost::filesystem::create_directories: the directory and its parents
create_directories(ds, p) == ds \cup {SubSeq(p, 1, n) : n \in 1..Len(p)}

\* a file sink / ofstream / fopen in mode "w": creates or truncates, unless the open fails
OpenTrunc(fs, p, fails) ==
  IF fails THEN fs
  ELSE [q \in (DOMAIN fs) \cup {p} |-> IF q = p THEN <<>> ELSE fs[q]]

\* output to an opened stream; a stream whose open failed drops it
WriteTo(fs, p, data) ==
  IF p \in DOMAIN fs THEN [fs EXCEPT ![p] = @ \o data] ELSE fs

\* open, write everything, close
Dump(fs, p, data, fails) == WriteTo(OpenTrunc(fs, p, fails), p, data)

RECURSIVE DumpAll(_, _, _, _)
DumpAll(fs, ps, data, fails) ==
  IF ps = {} THEN fs
  ELSE LET p == CHOOSE x \in ps : TRUE
       IN DumpAll(Dump(fs, p, data, fails), ps \ {p}, data, fails)


\* The engine sequences the serial operations and the bootstrap phase: a serial
\* operation (and the destructor) starts when no writeBootstrap call is running,
\* and a writeBootstrap call starts when no serial operation is running.
Quiescent == \A w \in Workers : pcW[w] = "idle"

\* ------------------------------------------------------------- experiment
SeqsUpTo(S, n) == UNION {[1..k -> S] : k \in 0..n}

\* experiment.equivalenceClassBuilder().eqVec(): here one class holding every
\* transcript (ids 0..n-1) when there is a transcript, no class otherwise
eqVec ==
  IF transcripts = <<>> THEN <<>>
  ELSE <<[txps |-> [i \in 1..Len(transcripts) |-> i - 1], count |-> 1]>>

\* ------------------------------------------------------- writeEquivCounts
eqFilePath == auxDir \o <<"eq_classes.txt">>

\* the lines of eq_classes.txt, each line the sequence of its fields
EquivLines(txps, eqs) ==
  <<<<Len(txps)>>, <<Len(eqs)>>>>
  \o [i \in 1..Len(txps) |-> <<txps[i]>>]
  \o [i \in 1..Len(eqs) |-> <<Len(eqs[i].txps)>> \o eqs[i].txps \o <<eqs[i].count>>]

\* lines 63-67: create the aux directory, open the ofstream
WriteEquivCountsOpen ==
  /\ life = "live" /\ pcMain = "idle"
  /\ Quiescent
  /\ dirs' = create_directories(dirs, auxDir)
  /\ files' = OpenTrunc(files, eqFilePath, openFails)
  /\ scoped' = scoped \cup {eqFilePath}
  /\ pcMain' = "equiv"
  /\ UNCHANGED <<expVars, bsPath_, bsVars, logger_, life, ret, ioOK, metaFresh>>

\* lines 69-97: write the counts, the names and the classes, close, return true
WriteEquivCountsBody ==
  /\ life = "live" /\ pcMain = "equiv"
  /\ files' = WriteTo(files, eqFilePath, EquivLines(transcripts, eqVec))
  /\ scoped' = scoped \ {eqFilePath}
  /\ ret' = [ret EXCEPT !["writeEquivCounts"] = "true"]
  /\ ioOK' = [ioOK EXCEPT !["writeEquivCounts"] = eqFilePath \in DOMAIN files]
  /\ pcMain' = "idle"
  /\ UNCHANGED <<expVars, dirs, bsPath_, bsVars, logger_, life, metaFresh>>

\* -------------------------------------------------------------- writeMeta
namesPath == bootstrapDir \o <<"names.tsv.gz">>
metaInfoPath == auxDir \o <<"meta_info.json">>

\* the artifacts writeVectorToFile dumps unconditionally (lines 163-183)
VectorFiles ==
  {auxDir \o <<n>> : n \in {"fld.gz", "expected_bias.gz", "observed_bias.gz",
                            "observed_bias_3p.gz"}}

\* mutant of SeqBiasFiles: the sequence-bias models are written under the wrong flag
SeqBiasFilesUnderGC(o) ==
  IF o.gcBiasCorrect
  THEN {auxDir \o <<n>> : n \in {"obs5_seq.gz", "obs3_seq.gz", "exp5_seq.gz", "exp3_seq.gz"}}
  ELSE {}

\* lines 185-227
SeqBiasFiles(o) ==
  IF o.biasCorrect
  THEN {auxDir \o <<n>> : n \in {"obs5_seq.gz", "obs3_seq.gz", "exp5_seq.gz", "exp3_seq.gz"}}
  ELSE {}

\* lines 229-250
GCBiasFiles(o) ==
  IF o.gcBiasCorrect
  THEN {auxDir \o <<n>> : n \in {"obs_gc.gz", "exp_gc.gz"}}
  ELSE {}

\* lines 135-136
NumSamples(o) ==
  IF o.numBootstraps > 0 THEN o.numBootstraps ELSE o.numGibbsSamples

\* mutant of SampType: the two tests in the other order and the gibbs test on
\* numSamples alone, so that "gibbs" overrides "bootstrap"
SampTypeGibbsLast(numBootstraps, numSamples) ==
  LET s0 == "none"
      s1 == IF numBootstraps > 0 THEN "bootstrap" ELSE s0
  IN IF numSamples > 0 THEN "gibbs" ELSE s1

\* lines 268-274
SampType(numBootstraps, numSamples) ==
  LET s0 == "none"
      s1 == IF numBootstraps = 0 /\ numSamples > 0 THEN "gibbs" ELSE s0
  IN IF numBootstraps > 0 THEN "bootstrap" ELSE s1

\* lines 276-298: the manifest (the keys whose values the model carries)
Manifest(o, txps) ==
  [samp_type        |-> SampType(o.numBootstraps, NumSamples(o)),
   frag_dist_length |-> numFLDSamples,
   seq_bias_correct |-> o.biasCorrect,
   gc_bias_correct  |-> o.gcBiasCorrect,
   num_targets      |-> Len(txps),
   num_bootstraps   |-> NumSamples(o),
   call             |-> "quant"]

\* lines 150-157: the text written to names.tsv.gz
RECURSIVE NamesFrom(_, _)
NamesFrom(txps, tn) ==
  IF tn > Len(txps) THEN <<"\n">>
  ELSE <<txps[tn]>> \o (IF tn < Len(txps) THEN <<"\t">> ELSE <<>>) \o NamesFrom(txps, tn + 1)

NamesTokens(txps) == NamesFrom(txps, 1)

\* the streams still alive when writeMeta leaves the names block (lines 140-159),
\* by the early return or by falling out of the block: nameOut is a local of it
AfterNamesBlock(streams) == streams \ {namesPath}

\* lines 132-145: create the directories, set bsPath_, open names.tsv.gz
WriteMetaBegin ==
  /\ life = "live" /\ pcMain = "idle"
  /\ Quiescent
  /\ metaFresh' = (DOMAIN files = {} /\ dirs = {path_})
  /\ IF NumSamples(opts) > 0
     THEN /\ bsPath_' = bootstrapDir
          /\ dirs' = create_directories(create_directories(dirs, auxDir), bootstrapDir)
          /\ files' = OpenTrunc(files, namesPath, openFails)
          /\ scoped' = scoped \cup {namesPath}
          /\ pcMain' = "metaNames"
     ELSE /\ dirs' = create_directories(dirs, auxDir)
          /\ pcMain' = "metaRest"
          /\ UNCHANGED <<bsPath_, files, scoped>>
  /\ UNCHANGED <<expVars, bsVars, logger_, life, ret, ioOK>>

\* lines 147-159: return false on an empty experiment, else write the names
WriteMetaNames ==
  /\ life = "live" /\ pcMain = "metaNames"
  /\ scoped' = AfterNamesBlock(scoped)
  /\ IF Len(transcripts) = 0
     THEN /\ ret' = [ret EXCEPT !["writeMeta"] = "false"]
          /\ ioOK' = [ioOK EXCEPT !["writeMeta"] = FALSE]
          /\ pcMain' = "idle"
          /\ UNCHANGED files
     ELSE /\ files' = WriteTo(files, namesPath, NamesTokens(transcripts))
          /\ pcMain' = "metaRest"
          /\ UNCHANGED <<ret, ioOK>>
  /\ UNCHANGED <<expVars, dirs, bsPath_, bsVars, logger_, life, metaFresh>>

\* what writeMeta is to write under the options
MetaFiles(o) ==
  VectorFiles \cup SeqBiasFiles(o) \cup GCBiasFiles(o) \cup {metaInfoPath}
  \cup (IF NumSamples(o) > 0 THEN {namesPath} ELSE {})

\* lines 163-300: the vector dumps, the model dumps, the manifest; return true
WriteMetaRest ==
  /\ life = "live" /\ pcMain = "metaRest"
  /\ LET bin == DumpAll(files, VectorFiles \cup SeqBiasFiles(opts) \cup GCBiasFiles(opts),
                        <<"bin">>, openFails)
         all == Dump(bin, metaInfoPath, <<Manifest(opts, transcripts)>>, openFails)
     IN /\ files' = all
        /\ ioOK' = [ioOK EXCEPT !["writeMeta"] = MetaFiles(opts) \subseteq DOMAIN all]
  /\ ret' = [ret EXCEPT !["writeMeta"] = "true"]
  /\ pcMain' = "idle"
  /\ UNCHANGED <<expVars, dirs, bsPath_, bsVars, logger_, life, scoped, metaFresh>>

\* -------------------------------------------------------- writeAbundances
quantPath == path_ \o <<"quant.sf">>

QuantHeader == <<"Name", "Length", "EffectiveLength", "TPM", "NumReads">>

\* mutant of QuantLines: the rows are emitted from the last transcript to the first
QuantLinesReversed(txps) ==
  <<QuantHeader>> \o [i \in 1..Len(txps) |-> <<txps[Len(txps) + 1 - i]>>]

\* lines 320 and 338-347: the header, then one row per transcript in order
QuantLines(txps) == <<QuantHeader>> \o [i \in 1..Len(txps) |-> <<txps[i]>>]

\* line 318: fopen(fname, "w") into a unique_ptr whose deleter is fclose
WriteAbundancesOpen ==
  /\ life = "live" /\ pcMain = "idle"
  /\ Quiescent
  /\ files' = OpenTrunc(files, quantPath, openFails)
  /\ scoped' = IF quantPath \in DOMAIN files' THEN scoped \cup {quantPath} ELSE scoped
  /\ pcMain' = "abund"
  /\ UNCHANGED <<expVars, dirs, bsPath_, bsVars, logger_, life, ret, ioOK, metaFresh>>

\* lines 320-348.  With a null FILE* the first fmt::print is undefined behaviour:
\* the process dies, or nothing is printed and the operation runs to its return.
WriteAbundancesBody ==
  /\ pcMain = "abund" /\ life = "live"
  /\ \E outcome \in (IF quantPath \in scoped THEN {"true"} ELSE {"true", "crash"}) :
       /\ ret' = [ret EXCEPT !["writeAbundances"] = outcome]
       /\ life' = IF outcome = "crash" THEN "crashed" ELSE life
  /\ files' = IF quantPath \in scoped
              THEN WriteTo(files, quantPath, QuantLines(transcripts)) ELSE files
  /\ scoped' = scoped \ {quantPath}
  /\ ioOK' = [ioOK EXCEPT !["writeAbundances"] = quantPath \in scoped]
  /\ pcMain' = "idle"
  /\ UNCHANGED <<expVars, dirs, bsPath_, bsVars, logger_, metaFresh>>


\* --------------------------------------------------------- writeBootstrap
\* the vector worker w passes to its c-th call; its elements are tagged so that
\* every element ever passed is distinct
abund(w, c) == [i \in 1..VecLen |-> <<w, c, i>>]

CallOf(w) == <<w, Len(returned[w]) + 1>>

NullStream == [state |-> "null", path |-> <<>>]

\* mutant of CanAcquire: the lock is not taken, a call enters whoever holds the mutex
CanAcquireUnlocked(m) == TRUE

\* line 356: std::lock_guard blocks until the mutex is free
CanAcquire(m) == m = NoOwner

\* mutant of NeedOpen: the stream is created anew on every call
NeedOpenAlways(s) == TRUE

\* line 358: if (!bsStream_)
NeedOpen(s) == s.state = "null"

\* lines 352-356: enter writeBootstrap and take the mutex
BsLock(w) ==
  /\ life = "live" /\ pcW[w] = "idle"
  /\ pcMain = "idle"
  /\ toAppend > 0 /\ Len(returned[w]) < CallsPerWorker
  /\ CanAcquire(writeMutex_)
  /\ writeMutex_' = w
  /\ toAppend' = toAppend - 1
  /\ acquired' = Append(acquired, CallOf(w))
  /\ pcW' = [pcW EXCEPT ![w] = "check"]
  /\ UNCHANGED <<expVars, dirs, files, bsPath_, bsStream_, numBootstrapsWritten_, logger_,
                 life, pcMain, scoped, ret, ioOK, metaFresh, widx, returned, bsOpens>>

\* line 358
BsCheck(w) ==
  /\ life = "live" /\ pcW[w] = "check"
  /\ pcW' = [pcW EXCEPT ![w] = IF NeedOpen(bsStream_) THEN "open" ELSE "write"]
  /\ widx' = [widx EXCEPT ![w] = 0]
  /\ UNCHANGED <<expVars, dirs, files, bsPath_, bsStream_, writeMutex_,
                 numBootstrapsWritten_, logger_, life, pcMain, scoped, ret, ioOK,
                 metaFresh, returned, toAppend, acquired, bsOpens>>

\* lines 359-364: a new stream over bsPath_ / "bootstraps.gz"
BsOpen(w) ==
  /\ life = "live" /\ pcW[w] = "open"
  /\ LET bsFilename == bsPath_ \o <<"bootstraps.gz">>
     IN /\ bsStream_' = [state |-> "open", path |-> bsFilename]
        /\ files' = OpenTrunc(files, bsFilename, openFails)
  /\ bsOpens' = bsOpens + 1
  /\ pcW' = [pcW EXCEPT ![w] = "write"]
  /\ UNCHANGED <<expVars, dirs, bsPath_, writeMutex_, numBootstrapsWritten_, logger_,
                 life, pcMain, scoped, ret, ioOK, metaFresh, widx, returned, toAppend, acquired>>

\* lines 367-371: ofile.write, one element after the other
BsWrite(w) ==
  /\ life = "live" /\ pcW[w] = "write"
  /\ IF widx[w] < VecLen
     THEN /\ files' = WriteTo(files, bsStream_.path, <<abund(w, CallOf(w)[2])[widx[w] + 1]>>)
          /\ widx' = [widx EXCEPT ![w] = @ + 1]
          /\ UNCHANGED pcW
     ELSE /\ pcW' = [pcW EXCEPT ![w] = "log"]
          /\ UNCHANGED <<files, widx>>
  /\ UNCHANGED <<expVars, dirs, bsPath_, bsStream_, writeMutex_, numBootstrapsWritten_,
                 logger_, life, pcMain, scoped, ret, ioOK, metaFresh, returned, toAppend,
                 acquired, bsOpens>>

\* line 372: logger_->info("wrote {} bootstraps", numBootstrapsWritten_.load()+1)
BsLog(w) ==
  /\ life = "live" /\ pcW[w] = "log"
  /\ logger_' = Append(logger_, [level |-> "info", n |-> numBootstrapsWritten_ + 1,
                                 call |-> CallOf(w)])
  /\ pcW' = [pcW EXCEPT ![w] = "inc"]
  /\ UNCHANGED <<expVars, dirs, files, bsPath_, bsStream_, writeMutex_,
                 numBootstrapsWritten_, life, pcMain, scoped, ret, ioOK, metaFresh,
                 widx, returned, toAppend, acquired, bsOpens>>

\* line 373: ++numBootstrapsWritten_ (atomic)
BsInc(w) ==
  /\ life = "live" /\ pcW[w] = "inc"
  /\ numBootstrapsWritten_' = numBootstrapsWritten_ + 1
  /\ pcW' = [pcW EXCEPT ![w] = "ret"]
  /\ UNCHANGED <<expVars, dirs, files, bsPath_, bsStream_, writeMutex_, logger_, life,
                 pcMain, scoped, ret, ioOK, metaFresh, widx, returned, toAppend, acquired, bsOpens>>

\* lines 374-375: return true; the lock_guard releases the mutex
BsReturn(w) ==
  /\ life = "live" /\ pcW[w] = "ret"
  /\ returned' = [returned EXCEPT ![w] =
                    Append(@, [ret |-> "true", pathSet |-> bsPath_ # <<>>,
                               ok |-> bsStream_.path \in DOMAIN files])]
  /\ writeMutex_' = NoOwner
  /\ pcW' = [pcW EXCEPT ![w] = "idle"]
  /\ UNCHANGED <<expVars, dirs, files, bsPath_, bsStream_, numBootstrapsWritten_, logger_,
                 life, pcMain, scoped, ret, ioOK, metaFresh, widx, toAppend, acquired, bsOpens>>

\* ------------------------------------------------------------ ~GZipWriter
\* mutant of DestroyStream: the destructor leaves the stream as it is
DestroyStreamNoReset(s) == s

\* lines 19-21: if (bsStream_) bsStream_->reset();
DestroyStream(s) == IF s.state # "null" THEN [s EXCEPT !.state = "closed"] ELSE s

Destructor ==
  /\ life = "live" /\ pcMain = "idle"
  /\ Quiescent
  /\ bsStream_' = DestroyStream(bsStream_)
  /\ life' = "destroyed"
  /\ UNCHANGED <<expVars, dirs, files, bsPath_, writeMutex_, numBootstrapsWritten_,
                 logger_, pcMain, scoped, ret, ioOK, metaFresh, pcW, widx, returned,
                 toAppend, acquired, bsOpens>>

\* ---------------------------------------------------------- specification
SerialOps == {"writeEquivCounts", "writeMeta", "writeAbundances"}

OptsSet ==
  [numBootstraps : 0..MaxBootstraps, numGibbsSamples : 0..MaxGibbs,
   biasCorrect : BOOLEAN, gcBiasCorrect : BOOLEAN]

\* lines 14-16: the state after construction, over an existing empty output
\* directory, for an experiment, options and a number of appends the engine will ask for
InitWriter(experiments, options, appends) ==
  /\ transcripts \in experiments
  /\ opts \in options
  /\ toAppend = appends
  /\ dirs = {path_}
  /\ files = <<>>
  /\ bsPath_ = <<>>
  /\ bsStream_ = NullStream
  /\ writeMutex_ = NoOwner
  /\ numBootstrapsWritten_ = 0
  /\ logger_ = <<>>
  /\ life = "live"
  /\ pcMain = "idle"
  /\ scoped = {}
  /\ ret = [op \in SerialOps |-> "none"]
  /\ ioOK = [op \in SerialOps |-> TRUE]
  /\ metaFresh = FALSE
  /\ pcW = [w \in Workers |-> "idle"]
  /\ widx = [w \in Workers |-> 0]
  /\ returned = [w \in Workers |-> <<>>]
  /\ acquired = <<>>
  /\ bsOpens = 0

\* every experiment and every setting of the options within the bounds; the engine
\* appends a single resample vector
Init ==
  /\ InitWriter(SeqsUpTo(RefNames, MaxTxps), OptsSet, 1)
  /\ openFails = FALSE

\* the same, in an environment that may make every open fail
InitFault ==
  /\ InitWriter(SeqsUpTo(RefNames, MaxTxps), OptsSet, 1)
  /\ openFails \in BOOLEAN

\* the bootstrap phase in full: every worker makes CallsPerWorker appends; the
\* experiment is empty or not, the options ask for resamples or not
InitBootstrap ==
  /\ InitWriter({<<>>, <<"A", "B">>},
                {o \in OptsSet : /\ o.numBootstraps = o.numGibbsSamples
                                 /\ o.numBootstraps \in {0, 1}
                                 /\ ~o.biasCorrect /\ ~o.gcBiasCorrect},
                NumWorkers * CallsPerWorker)
  /\ openFails = FALSE

Next ==
  \/ WriteEquivCountsOpen
  \/ WriteEquivCountsBody
  \/ WriteMetaBegin
  \/ WriteMetaNames
  \/ WriteMetaRest
  \/ WriteAbundancesOpen
  \/ WriteAbundancesBody
  \/ Destructor
  \/ \E w \in Workers : BsLock(w)
  \/ \E w \in Workers : BsCheck(w)
  \/ \E w \in Workers : BsOpen(w)
  \/ \E w \in Workers : BsWrite(w)
  \/ \E w \in Workers : BsLog(w)
  \/ \E w \in Workers : BsInc(w)
  \/ \E w \in Workers : BsReturn(w)

\* the serial operations over every experiment; every open succeeds
Spec == Init /\ [][Next]_vars

\* the serial operations when opens may fail
SpecFault == InitFault /\ [][Next]_vars

\* the concurrent bootstrap phase; every open succeeds
SpecBootstrap == InitBootstrap /\ [][Next]_vars

\* ================================================================ properties
bootstrapsPath == bootstrapDir \o <<"bootstraps.gz">>

\* every writeBootstrap call the workers are to make has returned
AllDone == Quiescent /\ \A w \in Workers : Len(returned[w]) = CallsPerWorker

Calls == {<<w, i>> : w \in Workers, i \in 1..CallsPerWorker}
Finished == {c \in Calls : c[2] <= Len(returned[c[1]])}
AllElements == {<<c[1], c[2], i>> : c \in Calls, i \in 1..VecLen}

\* what the bootstrap stream has delivered to its file
BsContent == IF bsStream_.path \in DOMAIN files THEN files[bsStream_.path] ELSE <<>>

RECURSIVE Concat(_)
Concat(calls) ==
  IF calls = <<>> THEN <<>>
  ELSE abund(Head(calls)[1], Head(calls)[2]) \o Concat(Tail(calls))

\* C1: once writeMeta has set the bootstrap path and the NumWorkers workers have each
\* made CallsPerWorker writeBootstrap calls with vectors of VecLen elements, and all
\* have returned, bootstraps.gz holds NumWorkers * CallsPerWorker * VecLen elements,
\* every element passed exactly once, the counter is NumWorkers * CallsPerWorker and
\* every call returned true.
C1_AllAppendsKept ==
  (AllDone /\ \A c \in Calls : returned[c[1]][c[2]].pathSet) =>
    /\ bsStream_.path = bootstrapsPath
    /\ bootstrapsPath \in DOMAIN files
    /\ Len(files[bootstrapsPath]) = NumWorkers * CallsPerWorker * VecLen
    /\ {files[bootstrapsPath][k] : k \in 1..Len(files[bootstrapsPath])} = AllElements
    /\ numBootstrapsWritten_ = NumWorkers * CallsPerWorker
    /\ \A c \in Calls : returned[c[1]][c[2]].ret = "true"

C1_Witness ==
  /\ AllDone
  /\ \A c \in Calls : returned[c[1]][c[2]].pathSet
  /\ Len(BsContent) = NumWorkers * CallsPerWorker * VecLen
  /\ \E k \in 1..(Len(acquired) - 1) : acquired[k][1] # acquired[k + 1][1]

\* C2: whenever the mutex is free, the bootstrap stream holds the whole vectors of the
\* calls made so far, concatenated in the order in which the calls took the mutex, and
\* the k-th log record says "wrote k bootstraps" and belongs to the k-th call in that
\* order.
C2_WholeVectorsInLockOrder ==
  writeMutex_ = NoOwner =>
    /\ BsContent = Concat(acquired)
    /\ Len(logger_) = Len(acquired)
    /\ \A k \in 1..Len(logger_) :
         /\ logger_[k].level = "info"
         /\ logger_[k].n = k
         /\ logger_[k].call = acquired[k]

C2_Witness ==
  /\ writeMutex_ = NoOwner
  /\ Len(acquired) >= 2
  /\ acquired[1][1] # acquired[2][1]
  /\ Len(logger_) = Len(acquired)
  /\ Len(BsContent) = Len(acquired) * VecLen

\* C3 (as claimed): on an experiment without transcripts writeMeta returns false,
\* whatever the options.
C3_EmptyExperimentFails ==
  (transcripts = <<>> /\ ret["writeMeta"] # "none") => ret["writeMeta"] = "false"

\* C4 (as claimed): after writeMeta on an experiment without transcripts and with
\* num_samples > 0, bootstrap/names.tsv.gz does not exist.
C4_NoNamesFileOnEmpty ==
  (transcripts = <<>> /\ NumSamples(opts) > 0 /\ ret["writeMeta"] # "none")
    => namesPath \notin DOMAIN files

\* C5 (as claimed): a writeBootstrap call made while bsPath_ is unset does not return
\* true, creates no bootstraps.gz stream and does not increment the counter.
C5_FailsFastWithoutPath ==
  /\ \A c \in Finished : ~returned[c[1]][c[2]].pathSet => returned[c[1]][c[2]].ret # "true"
  /\ bsPath_ = <<>> => (bsStream_ = NullStream /\ numBootstrapsWritten_ = 0)

\* C6 (as claimed): an operation returns true exactly when every file it was to write
\* was opened and written, and when it does not return true the logger holds an error.
ErrorLogged == \E k \in 1..Len(logger_) : logger_[k].level = "error"

C6_SuccessIffWritten ==
  /\ \A op \in SerialOps :
       ret[op] # "none" =>
         /\ (ret[op] = "true") <=> ioOK[op]
         /\ ret[op] # "true" => ErrorLogged
  /\ \A c \in Finished :
       /\ (returned[c[1]][c[2]].ret = "true") <=> returned[c[1]][c[2]].ok
       /\ returned[c[1]][c[2]].ret # "true" => ErrorLogged

\* C7: a writeMeta run that starts on an empty output directory returns true only
\* leaving under aux_dir exactly fld.gz, expected_bias.gz, observed_bias.gz,
\* observed_bias_3p.gz and meta_info.json, the four *_seq.gz files iff biasCorrect,
\* the two *_gc.gz files iff gcBiasCorrect, and bootstrap/ with names.tsv.gz iff
\* num_samples > 0.
AuxArtifacts == {p \in DOMAIN files : IsPrefix(auxDir, p)}

C7_Expected ==
  {auxDir \o <<n>> : n \in {"fld.gz", "expected_bias.gz", "observed_bias.gz",
                            "observed_bias_3p.gz", "meta_info.json"}}
  \cup {auxDir \o <<n>> : n \in IF opts.biasCorrect
                                THEN {"obs5_seq.gz", "obs3_seq.gz", "exp5_seq.gz", "exp3_seq.gz"}
                                ELSE {}}
  \cup {auxDir \o <<n>> : n \in IF opts.gcBiasCorrect THEN {"obs_gc.gz", "exp_gc.gz"} ELSE {}}
  \cup (IF opts.numBootstraps > 0 \/ opts.numGibbsSamples > 0
        THEN {auxDir \o <<"bootstrap", "names.tsv.gz">>} ELSE {})

C7_MetaArtifacts ==
  [][(pcMain \in {"metaNames", "metaRest"} /\ pcMain' = "idle"
        /\ ret'["writeMeta"] = "true" /\ metaFresh)
      => /\ AuxArtifacts' = C7_Expected
         /\ (auxDir \o <<"bootstrap">> \in dirs')
              <=> (opts.numBootstraps > 0 \/ opts.numGibbsSamples > 0)]_vars

C7_Witness ==
  /\ pcMain = "idle" /\ ret["writeMeta"] = "true" /\ metaFresh
  /\ opts.biasCorrect /\ ~opts.gcBiasCorrect
  /\ opts.numBootstraps = 0 /\ opts.numGibbsSamples > 0
  /\ AuxArtifacts = C7_Expected

\* C8: the manifest written by writeMeta has num_bootstraps = numBootstraps if that is
\* positive, else numGibbsSamples, and samp_type "bootstrap" if numBootstraps > 0, else
\* "gibbs" if numGibbsSamples > 0, else "none".
C8_ManifestSamples ==
  metaInfoPath \in DOMAIN files =>
    LET m == files[metaInfoPath][1]
        nb == opts.numBootstraps
        ng == opts.numGibbsSamples
    IN /\ m.num_bootstraps = (IF nb > 0 THEN nb ELSE ng)
       /\ m.samp_type = (IF nb > 0 THEN "bootstrap" ELSE IF ng > 0 THEN "gibbs" ELSE "none")

C8_Witness ==
  /\ metaInfoPath \in DOMAIN files
  /\ ret["writeMeta"] = "true"
  /\ opts.numBootstraps > 0 /\ opts.numGibbsSamples > 0
  /\ opts.numBootstraps # opts.numGibbsSamples

\* C9: quant.sf is the literal header followed by one row per transcript, and the
\* names in its rows, the name lines of eq_classes.txt and the names of
\* bootstrap/names.tsv.gz are all the experiment's transcripts in their order.
IsName(t) == t \notin {"\t", "\n"}

C9_TranscriptOrder ==
  /\ (quantPath \in DOMAIN files /\ pcMain # "abund") =>
       /\ Len(files[quantPath]) = Len(transcripts) + 1
       /\ files[quantPath][1] = <<"Name", "Length", "EffectiveLength", "TPM", "NumReads">>
       /\ \A i \in 1..Len(transcripts) : files[quantPath][i + 1][1] = transcripts[i]
  /\ (eqFilePath \in DOMAIN files /\ pcMain # "equiv") =>
       /\ Len(files[eqFilePath]) >= Len(transcripts) + 2
       /\ files[eqFilePath][1] = <<Len(transcripts)>>
       /\ \A i \in 1..Len(transcripts) : files[eqFilePath][i + 2] = <<transcripts[i]>>
  /\ (namesPath \in DOMAIN files /\ pcMain # "metaNames") =>
       SelectSeq(files[namesPath], IsName) = transcripts

C9_Witness ==
  /\ pcMain = "idle"
  /\ {quantPath, eqFilePath, namesPath} \subseteq DOMAIN files
  /\ Len(transcripts) = 2 /\ transcripts[1] # transcripts[2]
  /\ Len(files[quantPath]) = 3

\* C10: no scope-local stream of a serial operation is alive once the operation has
\* returned; a bootstrap stream is created at most once, exists iff a writeBootstrap
\* call has created it, and stays open while the writer lives; after destruction no
\* stream is open, and the bootstrap stream is closed iff it had been created.
C10_StreamLifetimes ==
  /\ pcMain = "idle" => scoped = {}
  /\ bsOpens = (IF bsStream_.state = "null" THEN 0 ELSE 1)
  /\ (life = "live" /\ bsStream_.state # "null") => bsStream_.state = "open"
  /\ life = "destroyed" =>
       /\ scoped = {}
       /\ bsStream_.state # "open"
       /\ (bsStream_.state = "closed") <=> (bsOpens > 0)

C10_Witness ==
  /\ life = "destroyed"
  /\ bsStream_.state = "closed"
  /\ ret["writeMeta"] = "false"
  /\ ret["writeEquivCounts"] = "true" /\ ret["writeAbundances"] = "true"
  /\ Len(acquired) >= 2

====
